---- MODULE Spec2Model ----
(***************************************************************************)
(* RestaurantPlaneer: the cost/margin analytics of utils/calculations over *)
(* the four collections kept by utils/storage (products, employees, sales, *)
(* expenses).                                                               *)
(*                                                                         *)
(* Numbers.  Every quantity of the program is a JavaScript number, an      *)
(* IEEE-754 binary floating-point value: each +, -, * and / returns the    *)
(* exact result rounded to the nearest representable value, ties to even.  *)
(* The model keeps that rounding rule and the special values NaN and       *)
(* +/-Infinity; the significand has MantissaBits bits in place of the 53   *)
(* of binary64 (TLC's integers are 32 bits wide), and the exponent is      *)
(* unbounded (the inputs are far from the overflow and underflow range).   *)
(* Zero is unsigned.  A finite number is n * 2^e with n odd (or n = e = 0),*)
(* so two numbers are equal exactly when their records are equal.          *)
(***************************************************************************)
EXTENDS Integers, Sequences, FiniteSets, TLC

VARIABLES products, employees, sales, expenses, out,
          firstLoadCompleted, run, salesScreen, clock, build

\* what the browser session holds besides the four collections: the
\* first-load flag in storage, the pending call of autoImportExampleData,
\* the state of the Sales screen, the reading of Date.now(), and which of
\* the two utils/initialization modules the application was built with
session == <<firstLoadCompleted, run, salesScreen, clock, build>>

vars == <<products, employees, sales, expenses, out, session>>

-----------------------------------------------------------------------------
(* Floating point                                                          *)

MantissaBits == 8

NaN == [k |-> "nan", n |-> 0, e |-> 0]
PosInf == [k |-> "inf", n |-> 1, e |-> 0]
NegInf == [k |-> "inf", n |-> -1, e |-> 0]
Zero == [k |-> "fin", n |-> 0, e |-> 0]

Abs(i) == IF i < 0 THEN -i ELSE i
Sign(i) == IF i < 0 THEN -1 ELSE IF i > 0 THEN 1 ELSE 0

RECURSIVE BitLen(_)
BitLen(a) == IF a = 0 THEN 0 ELSE 1 + BitLen(a \div 2)

RECURSIVE Norm(_, _)
\* the canonical record of n * 2^e
Norm(n, e) ==
  IF n = 0 THEN Zero
  ELSE IF n % 2 = 0 THEN Norm(n \div 2, e + 1)
  ELSE [k |-> "fin", n |-> n, e |-> e]

\* n * 2^e rounded to MantissaBits significant bits, nearest, ties to even
Round(n, e) ==
  LET a == Abs(n)
      len == BitLen(a)
  IN IF len <= MantissaBits THEN Norm(n, e)
     ELSE LET sh == len - MantissaBits
              q == a \div (2 ^ sh)
              r == a % (2 ^ sh)
              half == 2 ^ (sh - 1)
              up == r > half \/ (r = half /\ q % 2 = 1)
          IN Norm(Sign(n) * (IF up THEN q + 1 ELSE q), e + sh)

\* (n / d) * 2^e rounded, for integers n and d # 0
DivRound(n, d, e) ==
  IF n = 0 THEN Zero
  ELSE LET a == Abs(n)
           b == Abs(d)
           t == BitLen(b) + MantissaBits + 2 - BitLen(a)
           q == (a * (2 ^ t)) \div b
           r == (a * (2 ^ t)) % b
       IN Round(Sign(n) * Sign(d) * (2 * q + (IF r = 0 THEN 0 ELSE 1)), e - t - 1)

FromInt(i) == Round(i, 0)
\* the number a decimal literal n / 10^d denotes (parseFloat, a literal)
Dec(n, d) == DivRound(n, 10 ^ d, 0)

IsFinite(x) == x.k = "fin"
IsNaN(x) == x.k = "nan"

fneg(x) == [x EXCEPT !.n = -x.n]

fadd(x, y) ==
  IF IsNaN(x) \/ IsNaN(y) THEN NaN
  ELSE IF x.k = "inf" /\ y.k = "inf" THEN (IF x.n = y.n THEN x ELSE NaN)
  ELSE IF x.k = "inf" THEN x
  ELSE IF y.k = "inf" THEN y
  ELSE IF x.n = 0 THEN y
  ELSE IF y.n = 0 THEN x
  ELSE LET lo == IF x.e < y.e THEN x.e ELSE y.e
           sx == x.e - lo
           sy == y.e - lo
       IN IF BitLen(Abs(x.n)) + sx > 29 THEN x      \* y is below a quarter ulp of x
          ELSE IF BitLen(Abs(y.n)) + sy > 29 THEN y
          ELSE Round(x.n * (2 ^ sx) + y.n * (2 ^ sy), lo)

fsub(x, y) == fadd(x, fneg(y))

fmul(x, y) ==
  IF IsNaN(x) \/ IsNaN(y) THEN NaN
  ELSE IF x.k = "inf" \/ y.k = "inf"
       THEN (IF x.n = 0 \/ y.n = 0 THEN NaN
             ELSE IF Sign(x.n) = Sign(y.n) THEN PosInf ELSE NegInf)
  ELSE Round(x.n * y.n, x.e + y.e)

fdiv(x, y) ==
  IF IsNaN(x) \/ IsNaN(y) THEN NaN
  ELSE IF x.k = "inf"
       THEN (IF y.k = "inf" THEN NaN
             ELSE IF Sign(x.n) * Sign(y.n) < 0 THEN NegInf ELSE PosInf)
  ELSE IF y.k = "inf" THEN Zero
  ELSE IF y.n = 0
       THEN (IF x.n = 0 THEN NaN ELSE IF x.n < 0 THEN NegInf ELSE PosInf)
  ELSE DivRound(x.n, y.n, x.e - y.e)

\* x > 0, x < 0 and x === y of JavaScript (every comparison with NaN is false)
fgt0(x) == ~IsNaN(x) /\ x.n > 0
flt0(x) == ~IsNaN(x) /\ x.n < 0
feq(x, y) == ~IsNaN(x) /\ ~IsNaN(y) /\ x = y

-----------------------------------------------------------------------------
(* utils/calculations (the later variant, without preparationTime)         *)

STORAGE_COST_PER_CUBIC_METER == 5
DefaultHourlyRate == 15
DaysPerMonth == 30
TopProductsLimit == 10
StorageRowsLimit == 15

Null == [isNull |-> TRUE]

Min(a, b) == IF a < b THEN a ELSE b

\* array.find(r => r.id === id) from index i on: the index of the first match, 0 for none
RECURSIVE FindIndex(_, _, _)
FindIndex(seq, id, i) ==
  IF i > Len(seq) THEN 0
  ELSE IF seq[i].id = id THEN i
  ELSE FindIndex(seq, id, i + 1)

\* ingredients.reduce((sum, ing) => sum + ing.quantity * 0.5, 0)
RECURSIVE IngredientSum(_, _, _)
IngredientSum(ings, i, sum) ==
  IF i > Len(ings) THEN sum
  ELSE IngredientSum(ings, i + 1, fadd(sum, fmul(ings[i].quantity, Dec(5, 1))))

\* employees.reduce((sum, emp) => sum + emp.hourlyRate, 0)
RECURSIVE RateSum(_, _, _)
RateSum(emps, i, sum) ==
  IF i > Len(emps) THEN sum
  ELSE RateSum(emps, i + 1, fadd(sum, emps[i].hourlyRate))

averageHourlyRate(emps) ==
  IF Len(emps) > 0
  THEN fdiv(RateSum(emps, 1, Zero), FromInt(Len(emps)))
  ELSE FromInt(DefaultHourlyRate)

productStorageCost(product) ==
  fdiv(fmul(product.storageRequired, FromInt(STORAGE_COST_PER_CUBIC_METER)),
       FromInt(DaysPerMonth))

calculateProductCost(product, emps) ==
  LET ingredientCost == IngredientSum(product.ingredients, 1, Zero)
      laborCost == fmul(product.employeeHoursRequired, averageHourlyRate(emps))
      storageCost == productStorageCost(product)
  IN fadd(fadd(ingredientCost, laborCost), storageCost)

\* a variant that keeps the sales of every product
productSalesUnfiltered(ss, productId) == ss

\* sales.filter(s => s.productId === productId)
productSalesOf(ss, productId) == SelectSeq(ss, LAMBDA s : s.productId = productId)

\* productSales.reduce((sum, s) => sum + s.quantity, 0)
RECURSIVE QuantitySum(_, _, _)
QuantitySum(ss, i, sum) ==
  IF i > Len(ss) THEN sum
  ELSE QuantitySum(ss, i + 1, fadd(sum, ss[i].quantity))

\* sales.reduce((sum, s) => sum + (s.price * s.quantity), 0)
RECURSIVE RevenueSum(_, _, _)
RevenueSum(ss, i, sum) ==
  IF i > Len(ss) THEN sum
  ELSE RevenueSum(ss, i + 1, fadd(sum, fmul(ss[i].price, ss[i].quantity)))

\* a variant that falls back to the first product
findProductOrFirst(prods, productId) ==
  IF FindIndex(prods, productId, 1) = 0 /\ Len(prods) > 0 THEN 1
  ELSE FindIndex(prods, productId, 1)

\* products.find(p => p.id === productId): the index of the first match, 0 for none
findProduct(prods, productId) == FindIndex(prods, productId, 1)

\* a variant without the guard
percentageUnguarded(part, whole) == fmul(fdiv(part, whole), FromInt(100))

\* revenue > 0 ? (margin / revenue) * 100 : 0
percentageOf(part, whole) ==
  IF fgt0(whole) THEN fmul(fdiv(part, whole), FromInt(100)) ELSE Zero

analyzeProductPerformance(productId, prods, ss, emps) ==
  LET ix == findProduct(prods, productId)
  IN IF ix = 0 THEN Null
     ELSE LET product == prods[ix]
              productSales == productSalesOf(ss, productId)
              unitsSold == QuantitySum(productSales, 1, Zero)
              revenue == RevenueSum(productSales, 1, Zero)
              costPerUnit == calculateProductCost(product, emps)
              totalCost == fmul(costPerUnit, unitsSold)
              ingredientCost == fmul(IngredientSum(product.ingredients, 1, Zero), unitsSold)
              laborCost == fmul(fmul(product.employeeHoursRequired, averageHourlyRate(emps)),
                                unitsSold)
              storageCost == fmul(productStorageCost(product), unitsSold)
              margin == fsub(revenue, totalCost)
          IN [isNull |-> FALSE,
              productId |-> product.id,
              productName |-> product.name,
              revenue |-> revenue,
              ingredientCost |-> ingredientCost,
              laborCost |-> laborCost,
              storageCost |-> storageCost,
              totalCost |-> totalCost,
              margin |-> margin,
              marginPercentage |-> percentageOf(margin, revenue),
              unitsSold |-> unitsSold]

\* Array.prototype.sort with the comparator (a, b) => Key(b) - Key(a): the
\* stable sort in non-increasing key order (a NaN key compares as equal).
RECURSIVE InsertDesc(_, _)
InsertDesc(sorted, x) ==
  IF sorted = <<>> THEN <<x>>
  ELSE LET last == sorted[Len(sorted)]
       IN IF fgt0(fsub(x.key, last.key))     \* comparator(last, x) > 0
          THEN Append(InsertDesc(SubSeq(sorted, 1, Len(sorted) - 1), x), last)
          ELSE Append(sorted, x)

RECURSIVE SortDescFrom(_, _, _)
SortDescFrom(keyed, i, sorted) ==
  IF i > Len(keyed) THEN sorted
  ELSE SortDescFrom(keyed, i + 1, InsertDesc(sorted, keyed[i]))

SortDesc(seq, field) ==
  LET keyed == [i \in 1..Len(seq) |-> [key |-> seq[i][field], val |-> seq[i]]]
      sorted == SortDescFrom(keyed, 1, <<>>)
  IN [i \in 1..Len(sorted) |-> sorted[i].val]

\* array.slice(0, limit)
Slice(seq, limit) == SubSeq(seq, 1, Min(Len(seq), limit))


\* expenses.reduce((sum, e) => sum + e.amount, 0)
RECURSIVE AmountSum(_, _, _)
AmountSum(xs, i, sum) ==
  IF i > Len(xs) THEN sum
  ELSE AmountSum(xs, i + 1, fadd(sum, xs[i].amount))

\* a variant that adds each product's unit cost once, whatever it sold
RECURSIVE ProductCostSumOfUnits(_, _, _, _, _)
ProductCostSumOfUnits(prods, ss, emps, i, sum) ==
  IF i > Len(prods) THEN sum
  ELSE ProductCostSumOfUnits(prods, ss, emps, i + 1,
                             fadd(sum, calculateProductCost(prods[i], emps)))

\* products.reduce((sum, product) => sum + cost(product) * unitsSold(product), 0)
RECURSIVE ProductCostSum(_, _, _, _, _)
ProductCostSum(prods, ss, emps, i, sum) ==
  IF i > Len(prods) THEN sum
  ELSE LET unitsSold == QuantitySum(productSalesOf(ss, prods[i].id), 1, Zero)
       IN ProductCostSum(prods, ss, emps, i + 1,
                         fadd(sum, fmul(calculateProductCost(prods[i], emps), unitsSold)))

\* a variant that also filters out the products that sold nothing
productAnalysesOfSold(prods, ss, emps) ==
  SelectSeq([i \in 1..Len(prods) |->
               analyzeProductPerformance(prods[i].id, prods, ss, emps)],
            LAMBDA a : a # Null /\ fgt0(a.unitsSold))

\* products.map(analyzeProductPerformance).filter(analysis !== null)
productAnalysesOf(prods, ss, emps) ==
  SelectSeq([i \in 1..Len(prods) |->
               analyzeProductPerformance(prods[i].id, prods, ss, emps)],
            LAMBDA a : a # Null)

\* a variant that cuts the list before sorting it
topProductsCutFirst(analyses) == SortDesc(Slice(analyses, TopProductsLimit), "margin")

topProductsOf(analyses) == Slice(SortDesc(analyses, "margin"), TopProductsLimit)

getDashboardStats(prods, ss, xs, emps) ==
  LET totalRevenue == RevenueSum(ss, 1, Zero)
      totalExpenses == AmountSum(xs, 1, Zero)
      productCosts == ProductCostSum(prods, ss, emps, 1, Zero)
      totalCosts == fadd(totalExpenses, productCosts)
      netProfit == fsub(totalRevenue, totalCosts)
      totalOrders == Len(ss)
  IN [totalRevenue |-> totalRevenue,
      totalExpenses |-> totalCosts,
      netProfit |-> netProfit,
      topProducts |-> topProductsOf(productAnalysesOf(prods, ss, emps)),
      profitMargin |-> percentageOf(netProfit, totalRevenue),
      averageOrderValue |-> IF totalOrders > 0
                            THEN fdiv(totalRevenue, FromInt(totalOrders))
                            ELSE Zero]

\* The Map of getSalesByEmployee, as its entries in insertion order.
RECURSIVE salesByEmployeeMap(_, _, _)
salesByEmployeeMap(ss, i, map) ==
  IF i > Len(ss) THEN map
  ELSE LET sale == ss[i]
           at == FindIndex(map, sale.employeeId, 1)
           existing == IF at = 0 THEN [id |-> sale.employeeId, revenue |-> Zero, count |-> 0]
                       ELSE map[at]
           entry == [id |-> sale.employeeId,
                     revenue |-> fadd(existing.revenue, fmul(sale.price, sale.quantity)),
                     count |-> existing.count + 1]
       IN salesByEmployeeMap(ss, i + 1,
                             IF at = 0 THEN Append(map, entry)
                             ELSE [map EXCEPT ![at] = entry])

\* employee?.name || 'Desconocido'
nameOrUnknown(seq, id) ==
  LET at == FindIndex(seq, id, 1)
  IN IF at = 0 \/ seq[at].name = "" THEN "Desconocido" ELSE seq[at].name

\* a variant that returns the rows in Map order, unsorted
getSalesByEmployeeUnsorted(ss, emps) ==
  LET map == salesByEmployeeMap(ss, 1, <<>>)
  IN [i \in 1..Len(map) |->
        [employeeId |-> map[i].id,
         employeeName |-> nameOrUnknown(emps, map[i].id),
         totalSales |-> map[i].revenue,
         totalRevenue |-> map[i].revenue,
         numberOfSales |-> map[i].count]]

getSalesByEmployee(ss, emps) ==
  LET map == salesByEmployeeMap(ss, 1, <<>>)
      rows == [i \in 1..Len(map) |->
                 [employeeId |-> map[i].id,
                  employeeName |-> nameOrUnknown(emps, map[i].id),
                  totalSales |-> map[i].revenue,
                  totalRevenue |-> map[i].revenue,
                  numberOfSales |-> map[i].count]]
  IN SortDesc(rows, "totalRevenue")

\* The Map of getStorageByProduct, as its entries in insertion order.
RECURSIVE storageByProductMap(_, _, _, _)
storageByProductMap(prods, ss, i, map) ==
  IF i > Len(ss) THEN map
  ELSE LET sale == ss[i]
           px == FindIndex(prods, sale.productId, 1)
       IN IF px = 0 THEN storageByProductMap(prods, ss, i + 1, map)
          ELSE LET product == prods[px]
                   at == FindIndex(map, product.id, 1)
                   existing == IF at = 0 THEN [id |-> product.id, storage |-> Zero, units |-> Zero]
                               ELSE map[at]
                   totalStorage == fmul(product.storageRequired, sale.quantity)
                   entry == [id |-> product.id,
                             storage |-> fadd(existing.storage, totalStorage),
                             units |-> fadd(existing.units, sale.quantity)]
               IN storageByProductMap(prods, ss, i + 1,
                                      IF at = 0 THEN Append(map, entry)
                                      ELSE [map EXCEPT ![at] = entry])

\* a variant that returns the rows in Map order, unsorted
getStorageByProductUnsorted(prods, ss) ==
  LET map == storageByProductMap(prods, ss, 1, <<>>)
  IN Slice([i \in 1..Len(map) |->
              [productId |-> map[i].id,
               productName |-> nameOrUnknown(prods, map[i].id),
               totalStorage |-> map[i].storage,
               unitsSold |-> map[i].units]], StorageRowsLimit)

getStorageByProduct(prods, ss) ==
  LET map == storageByProductMap(prods, ss, 1, <<>>)
      rows == [i \in 1..Len(map) |->
                 [productId |-> map[i].id,
                  productName |-> nameOrUnknown(prods, map[i].id),
                  totalStorage |-> map[i].storage,
                  unitsSold |-> map[i].units]]
  IN Slice(SortDesc(rows, "totalStorage"), StorageRowsLimit)

\* The Map of getTimeByCategory, as its entries in insertion order (id is the
\* category, the key of the Map).
RECURSIVE timeByCategoryMap(_, _, _, _)
timeByCategoryMap(prods, ss, i, map) ==
  IF i > Len(ss) THEN map
  ELSE LET sale == ss[i]
           px == FindIndex(prods, sale.productId, 1)
       IN IF px = 0 THEN timeByCategoryMap(prods, ss, i + 1, map)
          ELSE LET product == prods[px]
                   at == FindIndex(map, product.category, 1)
                   existing == IF at = 0 THEN [id |-> product.category, time |-> Zero, units |-> Zero]
                               ELSE map[at]
                   totalTime == fmul(product.preparationTime, sale.quantity)
                   entry == [id |-> product.category,
                             time |-> fadd(existing.time, totalTime),
                             units |-> fadd(existing.units, sale.quantity)]
               IN timeByCategoryMap(prods, ss, i + 1,
                                    IF at = 0 THEN Append(map, entry)
                                    ELSE [map EXCEPT ![at] = entry])

MinutesPerHour == 60

getTimeByCategory(prods, ss) ==
  LET map == timeByCategoryMap(prods, ss, 1, <<>>)
      rows == [i \in 1..Len(map) |->
                 [category |-> map[i].id,
                  totalTime |-> map[i].time,
                  totalHours |-> fdiv(map[i].time, FromInt(MinutesPerHour)),
                  unitsSold |-> map[i].units]]
  IN SortDesc(rows, "totalTime")

-----------------------------------------------------------------------------
(* Dates.  A Date is its calendar fields in the zone of the browser (taken  *)
(* as UTC): year, month 0..11 as getMonth numbers it, day of month, minute  *)
(* of the day; or the Invalid Date, whose getters all return NaN.  Time is  *)
(* counted in minutes, not milliseconds.                                    *)

DateOf(year, month, day, minute) ==
  [year |-> year, month |-> month, day |-> day, minute |-> minute, valid |-> TRUE]

InvalidDate == [year |-> 0, month |-> 0, day |-> 0, minute |-> 0, valid |-> FALSE]

\* new Date(null), which is what a date saved as null is read back as
EpochDate == DateOf(1970, 0, 1, 0)

IsLeap(y) == (y % 4 = 0 /\ y % 100 # 0) \/ y % 400 = 0

\* days of the months before month m (0..11) in a common year
DaysBeforeMonth == <<0, 31, 59, 90, 120, 151, 181, 212, 243, 273, 304, 334>>

\* leap days of the years 1970 .. y - 1
LeapDaysBefore(y) ==
  ((y - 1) \div 4 - (y - 1) \div 100 + (y - 1) \div 400) -
  (1969 \div 4 - 1969 \div 100 + 1969 \div 400)

\* date.getTime() of a valid date, in minutes since 1970-01-01
getTime(d) ==
  LET days == 365 * (d.year - 1970) + LeapDaysBefore(d.year)
                + DaysBeforeMonth[d.month + 1]
                + (IF d.month >= 2 /\ IsLeap(d.year) THEN 1 ELSE 0)
                + (d.day - 1)
  IN days * (24 * 60) + d.minute

\* a.getMonth() === b.getMonth() && a.getFullYear() === b.getFullYear();
\* NaN equals nothing
\* a variant that compares getMonth() only, not the year
sameMonthNumber(a, b) ==
  a.valid /\ b.valid /\ a.month = b.month

sameMonth(a, b) ==
  a.valid /\ b.valid /\ a.month = b.month /\ a.year = b.year

\* JSON.stringify then new Date(...): what a saved date is read back as
reloadDate(d) == IF d.valid THEN d ELSE EpochDate

\* [...list].sort((a, b) => b.date.getTime() - a.date.getTime()); a NaN
\* difference counts as 0
RECURSIVE InsertByDateDesc(_, _)
InsertByDateDesc(sorted, x) ==
  IF sorted = <<>> THEN <<x>>
  ELSE LET last == sorted[Len(sorted)]
       IN IF x.date.valid /\ last.date.valid /\ getTime(x.date) - getTime(last.date) > 0
          THEN Append(InsertByDateDesc(SubSeq(sorted, 1, Len(sorted) - 1), x), last)
          ELSE Append(sorted, x)

RECURSIVE SortByDateDescFrom(_, _, _)
SortByDateDescFrom(list, i, sorted) ==
  IF i > Len(list) THEN sorted
  ELSE SortByDateDescFrom(list, i + 1, InsertByDateDesc(sorted, list[i]))

SortByDateDesc(list) == SortByDateDescFrom(list, 1, <<>>)

\* 7 * 24 * 60 * 60 * 1000 milliseconds, in minutes
WeekSpan == 7 * 24 * 60

\* set.add(name): insertion order, no duplicates
\* a variant that pushes to an array: a name once per sale
ArrayPush(set, name) == Append(set, name)

SetAdd(set, name) ==
  IF \E i \in 1..Len(set) : set[i] = name THEN set ELSE Append(set, name)

\* the reduce of getSalesByDay: acc, as its entries with the days in
\* ascending order (the order Object.values lists integer keys in)
RECURSIVE salesByDayAcc(_, _, _, _)
salesByDayAcc(filtered, emps, i, acc) ==
  IF i > Len(filtered) THEN acc
  ELSE LET sale == filtered[i]
           day == sale.date.day
           at == IF \E k \in 1..Len(acc) : acc[k].day = day
                 THEN CHOOSE k \in 1..Len(acc) : acc[k].day = day
                 ELSE 0
           existing == IF at = 0
                       THEN [day |-> day,
                             date |-> [year |-> sale.date.year, month |-> sale.date.month,
                                       day |-> sale.date.day],
                             totalRevenue |-> Zero, totalQuantity |-> Zero,
                             employees |-> <<>>]
                       ELSE acc[at]
           ex == FindIndex(emps, sale.employeeId, 1)
           entry == [existing EXCEPT
                       !.totalRevenue = fadd(existing.totalRevenue,
                                             fmul(sale.price, sale.quantity)),
                       !.totalQuantity = fadd(existing.totalQuantity, sale.quantity),
                       !.employees = IF ex # 0
                                     THEN SetAdd(existing.employees, emps[ex].name)
                                     ELSE existing.employees]
           before == SelectSeq(acc, LAMBDA r : r.day < day)
           after == SelectSeq(acc, LAMBDA r : r.day > day)
       IN salesByDayAcc(filtered, emps, i + 1, before \o <<entry>> \o after)

\* the sales getSalesByDay keeps for the month: those of the current month,
\* or of the month of the first sale in descending date order
monthSalesOf(ss, now) ==
  LET currentMonthSales == SelectSeq(ss, LAMBDA sale : sameMonth(sale.date, now))
  IN IF Len(currentMonthSales) = 0
     THEN LET mostRecentDate == SortByDateDesc(ss)[1].date
          IN SelectSeq(ss, LAMBDA sale : sameMonth(sale.date, mostRecentDate))
     ELSE currentMonthSales

\* the part of them the 'week' range keeps (the month has sales)
weekSalesOf(filteredSales) ==
  LET mostRecentInFiltered == SortByDateDesc(filteredSales)[1].date
      weekAgo == getTime(mostRecentInFiltered) - WeekSpan
  IN SelectSeq(filteredSales, LAMBDA sale : getTime(sale.date) >= weekAgo)

\* a variant without the early return for an empty list: sortedSales[0] is
\* undefined and reading its date throws
getSalesByDayUnguarded(ss, emps, timeRange, now) ==
  IF Len(ss) = 0 THEN [rows |-> <<>>, threw |-> TRUE]
  ELSE LET monthSales == monthSalesOf(ss, now)
       IN IF timeRange = "week" /\ Len(monthSales) = 0
          THEN [rows |-> <<>>, threw |-> TRUE]
          ELSE LET filteredSales == IF timeRange = "week" THEN weekSalesOf(monthSales)
                                    ELSE monthSales
               IN [rows |-> salesByDayAcc(filteredSales, emps, 1, <<>>), threw |-> FALSE]

\* what getSalesByDay(timeRange) returns for the clock reading now: its rows,
\* or the TypeError of reading .date of sortedFiltered[0] when it is undefined
getSalesByDay(ss, emps, timeRange, now) ==
  IF Len(ss) = 0 THEN [rows |-> <<>>, threw |-> FALSE]
  ELSE LET monthSales == monthSalesOf(ss, now)
       IN IF timeRange = "week" /\ Len(monthSales) = 0
          THEN [rows |-> <<>>, threw |-> TRUE]
          ELSE LET filteredSales == IF timeRange = "week" THEN weekSalesOf(monthSales)
                                    ELSE monthSales
               IN [rows |-> salesByDayAcc(filteredSales, emps, 1, <<>>), threw |-> FALSE]

\* The Map of getExpensesByCategory, as its entries in insertion order (id is
\* the category, the key of the Map).
RECURSIVE expensesByCategoryMap(_, _, _)
expensesByCategoryMap(xs, i, map) ==
  IF i > Len(xs) THEN map
  ELSE LET expense == xs[i]
           at == FindIndex(map, expense.category, 1)
           existing == IF at = 0 THEN [id |-> expense.category, amount |-> Zero, count |-> 0]
                       ELSE map[at]
           entry == [id |-> expense.category,
                     amount |-> fadd(existing.amount, expense.amount),
                     count |-> existing.count + 1]
       IN expensesByCategoryMap(xs, i + 1,
                                IF at = 0 THEN Append(map, entry)
                                ELSE [map EXCEPT ![at] = entry])

getExpensesByCategory(xs) ==
  LET map == expensesByCategoryMap(xs, 1, <<>>)
      rows == [i \in 1..Len(map) |->
                 [category |-> map[i].id,
                  totalAmount |-> map[i].amount,
                  count |-> map[i].count]]
  IN SortDesc(rows, "totalAmount")

-----------------------------------------------------------------------------
(* utils/calculations, the earlier variant: labour cost per preparation    *)
(* minute                                                                  *)

laborCostPerPreparation(product, emps) ==
  fmul(fdiv(fmul(product.employeeHoursRequired, averageHourlyRate(emps)),
            product.preparationTime),
       FromInt(60))

calculateProductCostPrep(product, emps) ==
  LET ingredientCost == IngredientSum(product.ingredients, 1, Zero)
      laborCost == laborCostPerPreparation(product, emps)
      storageCost == productStorageCost(product)
  IN fadd(fadd(ingredientCost, laborCost), storageCost)

analyzeProductPerformancePrep(productId, prods, ss, emps) ==
  LET ix == findProduct(prods, productId)
  IN IF ix = 0 THEN Null
     ELSE LET product == prods[ix]
              productSales == productSalesOf(ss, productId)
              unitsSold == QuantitySum(productSales, 1, Zero)
              revenue == RevenueSum(productSales, 1, Zero)
              costPerUnit == calculateProductCostPrep(product, emps)
              totalCost == fmul(costPerUnit, unitsSold)
              ingredientCost == fmul(IngredientSum(product.ingredients, 1, Zero), unitsSold)
              laborCost == fmul(laborCostPerPreparation(product, emps), unitsSold)
              storageCost == fmul(productStorageCost(product), unitsSold)
              margin == fsub(revenue, totalCost)
          IN [isNull |-> FALSE,
              productId |-> product.id,
              productName |-> product.name,
              revenue |-> revenue,
              ingredientCost |-> ingredientCost,
              laborCost |-> laborCost,
              storageCost |-> storageCost,
              totalCost |-> totalCost,
              margin |-> margin,
              marginPercentage |-> percentageOf(margin, revenue),
              unitsSold |-> unitsSold]

-----------------------------------------------------------------------------
(* utils/csvImporter over utils/storage: a CSV file is the list of its     *)
(* parsed rows, each numeric cell already the number parseFloat returns    *)

\* A CSV text is the list of its lines (the text trimmed and split at the
\* line breaks), each line the list of the cells parseCSVLine splits it
\* into; the header line is the first.  The empty text is one line of one
\* empty cell.
EmptyText == << <<"">> >>

\* row[header] = values[index], for every header
parseCSVRow(headers, values) ==
  [h \in {headers[k] : k \in 1..Len(headers)} |->
     values[CHOOSE k \in 1..Len(headers) : headers[k] = h]]

parseCSV(csvText) ==
  IF Len(csvText) < 2 THEN <<>>
  ELSE LET headers == csvText[1]
           data == SelectSeq(SubSeq(csvText, 2, Len(csvText)),
                             LAMBDA values : Len(values) = Len(headers))
       IN [i \in 1..Len(data) |-> parseCSVRow(headers, data[i])]

\* map.set(entry.id, entry): an existing key keeps its place
MapSet(map, entry) ==
  LET at == FindIndex(map, entry.id, 1)
  IN IF at = 0 THEN Append(map, entry) ELSE [map EXCEPT ![at] = entry]

\* new Map(existing.map(r => [r.id, r])), as its values in insertion order
RECURSIVE MapOf(_, _, _)
MapOf(existing, i, map) ==
  IF i > Len(existing) THEN map
  ELSE MapOf(existing, i + 1, MapSet(map, existing[i]))

importProducts(csvData) ==
  SelectSeq([i \in 1..Len(csvData) |->
               [id |-> csvData[i].id,
                name |-> csvData[i].name,
                price |-> csvData[i].price,
                category |-> csvData[i].category,
                preparationTime |-> csvData[i].preparationTime,
                storageRequired |-> csvData[i].storageRequired,
                employeeHoursRequired |-> csvData[i].employeeHoursRequired,
                ingredients |-> <<>>]],
            LAMBDA p : p.id # "" /\ p.name # "")

importEmployees(csvData) ==
  SelectSeq(csvData, LAMBDA r : r.id # "" /\ r.name # "")

\* the date cell of a row is the Date new Date(dateStr) gives; an empty
\* cell or one that does not parse leaves the date at new Date(), now
importSales(csvData, now) ==
  SelectSeq([i \in 1..Len(csvData) |->
               [csvData[i] EXCEPT !.date = IF csvData[i].date.valid THEN csvData[i].date ELSE now]],
            LAMBDA r : r.id # "" /\ r.productId # "" /\ r.employeeId # "")

importExpenses(csvData) ==
  SelectSeq(csvData, LAMBDA r : r.id # "" /\ r.description # "")

\* the merge loop of importProductsFromCSV: an updated product keeps the
\* ingredients it had
RECURSIVE mergeProducts(_, _, _)
mergeProducts(map, imported, i) ==
  IF i > Len(imported) THEN map
  ELSE LET product == imported[i]
           at == FindIndex(map, product.id, 1)
           merged == IF at # 0 /\ Len(map[at].ingredients) > 0
                     THEN [product EXCEPT !.ingredients = map[at].ingredients]
                     ELSE product
       IN mergeProducts(MapSet(map, merged), imported, i + 1)

\* the merge loop of the other three importers
RECURSIVE mergeRecords(_, _, _)
mergeRecords(map, imported, i) ==
  IF i > Len(imported) THEN map
  ELSE mergeRecords(MapSet(map, imported[i]), imported, i + 1)

\* a variant without the early return for an import with no valid row
importProductsFromCSVUnguarded(stored, csvData, merge) ==
  LET imported == importProducts(csvData)
  IN IF merge THEN mergeProducts(MapOf(stored, 1, <<>>), imported, 1)
     ELSE imported

\* what storage holds after importProductsFromCSV(csv, merge)
importProductsFromCSV(stored, csvData, merge) ==
  LET imported == importProducts(csvData)
  IN IF Len(imported) = 0 THEN stored
     ELSE IF merge THEN mergeProducts(MapOf(stored, 1, <<>>), imported, 1)
     ELSE imported

importEmployeesFromCSV(stored, csvData, merge) ==
  LET imported == importEmployees(csvData)
  IN IF Len(imported) = 0 THEN stored
     ELSE IF merge THEN mergeRecords(MapOf(stored, 1, <<>>), imported, 1)
     ELSE imported

\* storageService.saveSales then getSales: every date through JSON
reloadSales(saved) == [i \in 1..Len(saved) |-> [saved[i] EXCEPT !.date = reloadDate(saved[i].date)]]

importSalesFromCSV(stored, csvData, merge, now) ==
  LET imported == importSales(csvData, now)
  IN IF Len(imported) = 0 THEN stored
     ELSE IF merge THEN reloadSales(mergeRecords(MapOf(stored, 1, <<>>), imported, 1))
     ELSE reloadSales(imported)

importExpensesFromCSV(stored, csvData, merge) ==
  LET imported == importExpenses(csvData)
  IN IF Len(imported) = 0 THEN stored
     ELSE IF merge THEN mergeRecords(MapOf(stored, 1, <<>>), imported, 1)
     ELSE imported

\* updatedCount + newCount of a merge loop: each imported row adds one to
\* one of the two
RECURSIVE mergeCount(_, _, _, _)
mergeCount(map, imported, i, count) ==
  IF i > Len(imported) THEN count
  ELSE mergeCount(MapSet(map, imported[i]), imported, i + 1, count + 1)

\* the { success, errors } an import*FromCSV returns
importResult(stored, imported, merge) ==
  IF Len(imported) = 0
  THEN [success |-> 0, errors |-> <<"No se encontraron registros validos en el CSV">>]
  ELSE IF merge
       THEN [success |-> mergeCount(MapOf(stored, 1, <<>>), imported, 1, 0), errors |-> <<>>]
       ELSE [success |-> Len(imported), errors |-> <<>>]

-----------------------------------------------------------------------------
(* The inputs: the CSV files a user imports, and what the browser's        *)
(* storage may hold when the application starts                            *)

ProductRow(id, name, price, category, prep, storage, hours) ==
  [id |-> id, storageRequired |-> storage, employeeHoursRequired |-> hours,
   price |-> price, name |-> name, category |-> category,
   preparationTime |-> prep]

Cafe == ProductRow("p1", "Cafe", FromInt(10), "bebidas", FromInt(30), Dec(1, 1), FromInt(1))
Tarta == ProductRow("p2", "Tarta", Dec(35, 1), "postres", Zero, Dec(5, 1), Dec(1, 1))
CafeRepriced == [Cafe EXCEPT !.price = FromInt(12)]
NoIdRow == ProductRow("", "Sin id", FromInt(1), "bebidas", FromInt(5), Zero, Zero)

\* a product saved earlier with ingredients (no screen edits them)
Menu ==
  [id |-> "p3", storageRequired |-> Dec(15, 1),
   ingredients |-> <<[quantity |-> Dec(5, 1), productId |-> "p1", unit |-> "l"]>>,
   employeeHoursRequired |-> Dec(25, 2), price |-> Dec(999, 2), name |-> "Menu",
   category |-> "menus", preparationTime |-> FromInt(15)]

ProductFiles == {<<Cafe, Tarta>>, <<CafeRepriced, NoIdRow>>}

EmployeeRow(id, name, rate) == [id |-> id, hourlyRate |-> rate, name |-> name]

EmployeeFiles ==
  {<<EmployeeRow("e1", "Ana", FromInt(10)), EmployeeRow("e2", "Luis", FromInt(12))>>,
   <<EmployeeRow("e1", "Ana", Dec(125, 1))>>}

SaleRowOn(id, productId, employeeId, quantity, price, date) ==
  [id |-> id, quantity |-> quantity, productId |-> productId, price |-> price,
   employeeId |-> employeeId, date |-> date]

\* a sale of 15 January 2024
SaleRow(id, productId, employeeId, quantity, price) ==
  SaleRowOn(id, productId, employeeId, quantity, price, DateOf(2024, 0, 15, 0))

\* the readings of the clock: 20 February 2024, 10:30, and 2 April 2024
NowInputs == {DateOf(2024, 1, 20, 630), DateOf(2024, 3, 2, 0)}

SaleFiles ==
  {<<SaleRow("s1", "p3", "e1", FromInt(1), Dec(1, 1)),
     SaleRow("s2", "p2", "e2", FromInt(1), Dec(3, 1)),
     SaleRow("s3", "p3", "e1", FromInt(5), Dec(1, 1))>>,
   <<SaleRow("s4", "p2", "e1", FromInt(5), Dec(35, 1)),
     SaleRow("s5", "p1", "e1", FromInt(2), FromInt(10)),
     SaleRow("s6", "p1", "e9", FromInt(1), FromInt(-25)),
     SaleRow("s7", "p9", "e2", FromInt(3), FromInt(2))>>}

ExpenseRow(id, description, amount, category) ==
  [id |-> id, amount |-> amount, category |-> category, description |-> description]

ExpenseFiles == {<<ExpenseRow("x1", "Alquiler", FromInt(100), "local")>>}

\* the ids analyzeProductPerformance is asked about
ProductIdInputs == {"p1", "p2", "p3", "p9"}

-----------------------------------------------------------------------------
(* The application: storage, the imports that write it and the analytics   *)
(* that read it.  out is the value the last analytics call returned, for   *)
(* the snapshot storage still holds.                                       *)

Idle == [op |-> "none"]

\* no call of autoImportExampleData is pending
NoRun == "none"

\* the two utils/initialization modules: the one that imports while the
\* first-load flag is unset, and the one that imports at every call
Guarded == "guarded"
Forced == "forced"
Builds == {Guarded, Forced}

\* the Sales screen is not mounted
Closed == [products |-> <<>>, employees |-> <<>>, sales |-> <<>>, open |-> FALSE]

\* a session in which the application shell plays no part: the flag is
\* unset, nothing is pending, the Sales screen is closed
InitSession ==
  /\ firstLoadCompleted = FALSE
  /\ run = NoRun
  /\ salesScreen = Closed
  /\ clock = 0
  /\ build = Guarded

Init ==
  /\ products \in {<<>>, <<Menu>>}
  /\ employees = <<>>
  /\ sales = <<>>
  /\ expenses = <<>>
  /\ out = Idle
  /\ InitSession

ImportProducts(csvData, merge) ==
  /\ products' = importProductsFromCSV(products, csvData, merge)
  /\ out' = Idle
  /\ UNCHANGED <<employees, sales, expenses, session>>

ImportEmployees(csvData, merge) ==
  /\ employees' = importEmployeesFromCSV(employees, csvData, merge)
  /\ out' = Idle
  /\ UNCHANGED <<products, sales, expenses, session>>

ImportSales(csvData, merge, now) ==
  /\ sales' = importSalesFromCSV(sales, csvData, merge, now)
  /\ out' = Idle
  /\ UNCHANGED <<products, employees, expenses, session>>

ImportExpenses(csvData, merge) ==
  /\ expenses' = importExpensesFromCSV(expenses, csvData, merge)
  /\ out' = Idle
  /\ UNCHANGED <<products, employees, sales, session>>

\* the product list shows calculateProductCost(product, employees) per row
CallCalculateProductCost(i) ==
  /\ out' = [op |-> "calculateProductCost", arg |-> products[i].id,
             res |-> calculateProductCost(products[i], employees)]
  /\ UNCHANGED <<products, employees, sales, expenses, session>>

CallCalculateProductCostPrep(i) ==
  /\ out' = [op |-> "calculateProductCostPrep", arg |-> products[i].id,
             res |-> calculateProductCostPrep(products[i], employees)]
  /\ UNCHANGED <<products, employees, sales, expenses, session>>

CallAnalyzeProductPerformance(productId) ==
  /\ out' = [op |-> "analyzeProductPerformance", arg |-> productId,
             res |-> analyzeProductPerformance(productId, products, sales, employees)]
  /\ UNCHANGED <<products, employees, sales, expenses, session>>

CallAnalyzeProductPerformancePrep(productId) ==
  /\ out' = [op |-> "analyzeProductPerformancePrep", arg |-> productId,
             res |-> analyzeProductPerformancePrep(productId, products, sales, employees)]
  /\ UNCHANGED <<products, employees, sales, expenses, session>>

CallGetDashboardStats ==
  /\ out' = [op |-> "getDashboardStats", arg |-> "",
             res |-> getDashboardStats(products, sales, expenses, employees)]
  /\ UNCHANGED <<products, employees, sales, expenses, session>>

CallGetSalesByEmployee ==
  /\ out' = [op |-> "getSalesByEmployee", arg |-> "",
             res |-> getSalesByEmployee(sales, employees)]
  /\ UNCHANGED <<products, employees, sales, expenses, session>>

CallGetStorageByProduct ==
  /\ out' = [op |-> "getStorageByProduct", arg |-> "",
             res |-> getStorageByProduct(products, sales)]
  /\ UNCHANGED <<products, employees, sales, expenses, session>>

CallGetTimeByCategory ==
  /\ out' = [op |-> "getTimeByCategory", arg |-> "",
             res |-> getTimeByCategory(products, sales)]
  /\ UNCHANGED <<products, employees, sales, expenses, session>>

Next ==
  \/ \E f \in ProductFiles, merge \in BOOLEAN : ImportProducts(f, merge)
  \/ \E f \in EmployeeFiles, merge \in BOOLEAN : ImportEmployees(f, merge)
  \/ \E f \in SaleFiles, merge \in BOOLEAN, now \in NowInputs : ImportSales(f, merge, now)
  \/ \E f \in ExpenseFiles, merge \in BOOLEAN : ImportExpenses(f, merge)
  \/ \E i \in 1..Len(products) : CallCalculateProductCost(i)
  \/ \E i \in 1..Len(products) : CallCalculateProductCostPrep(i)
  \/ \E id \in ProductIdInputs : CallAnalyzeProductPerformance(id)
  \/ \E id \in ProductIdInputs : CallAnalyzeProductPerformancePrep(id)
  \/ CallGetDashboardStats
  \/ CallGetSalesByEmployee
  \/ CallGetStorageByProduct

Spec == Init /\ [][Next]_vars

-----------------------------------------------------------------------------
(* Large imports: CSV files of up to MaxBulk generated rows, to fill the    *)
(* top-10 and top-15 lists beyond their limits                              *)

MaxBulk == 16

StorageLevels == <<Dec(3, 1), Dec(1, 1), FromInt(1)>>
PriceLevels == <<FromInt(2), Dec(999, 2), Dec(5, 1), FromInt(4)>>

BulkProduct(i, a) ==
  ProductRow("b" \o ToString(i), "B" \o ToString(i), FromInt(5), "carta", FromInt(10),
             StorageLevels[((a * (i - 1)) % 3) + 1],
             IF (i + a) % 2 = 0 THEN Dec(1, 1) ELSE Dec(5, 1))

BulkProductFile(n, a) == [i \in 1..n |-> BulkProduct(i, a)]

BulkSale(j) ==
  SaleRow("t" \o ToString(j), "b" \o ToString(j), "e1",
          FromInt(((j - 1) % 3) + 1), PriceLevels[((j - 1) % 4) + 1])

BulkSaleFile(m) == [j \in 1..m |-> BulkSale(j)]

\* a second file, merged into the first: more sales of product b1, and a
\* sale of a product that does not exist
ExtraSaleFile ==
  <<SaleRow("u1", "b1", "e2", FromInt(5), FromInt(2)),
    SaleRow("u2", "b99", "e2", FromInt(2), FromInt(4))>>

NextBulk ==
  \/ \E n \in 1..MaxBulk, a \in 1..2 : ImportProducts(BulkProductFile(n, a), FALSE)
  \/ \E f \in EmployeeFiles : ImportEmployees(f, FALSE)
  \/ \E m \in 1..MaxBulk, now \in NowInputs : ImportSales(BulkSaleFile(m), FALSE, now)
  \/ \E now \in NowInputs : ImportSales(ExtraSaleFile, TRUE, now)
  \/ CallGetDashboardStats
  \/ CallGetStorageByProduct

SpecBulk == Init /\ [][NextBulk]_vars

-----------------------------------------------------------------------------
(* The sales journal: dated sales over several months, fractional          *)
(* quantities (the sale form steps by 0.01), and the charts by day and by  *)
(* category                                                                *)

MaxDays == 9

\* sales of February 2024 with one of January on the same day number, one
\* of February 2023 and one whose date cell does not parse
JournalFile ==
  <<SaleRowOn("d1", "p1", "e1", Dec(1, 1), FromInt(10), DateOf(2024, 1, 15, 0)),
    SaleRowOn("d2", "p2", "e2", Dec(3, 1), Dec(35, 1), DateOf(2024, 1, 15, 0)),
    SaleRowOn("d3", "p1", "e1", Dec(5, 1), FromInt(10), DateOf(2024, 1, 15, 0)),
    SaleRowOn("d4", "p9", "e9", FromInt(2), FromInt(2), DateOf(2024, 0, 15, 0)),
    SaleRowOn("d5", "p2", "e2", FromInt(1), Dec(35, 1), DateOf(2024, 1, 3, 0)),
    SaleRowOn("d6", "p1", "e1", FromInt(1), FromInt(10), DateOf(2023, 1, 15, 0)),
    SaleRowOn("d7", "p1", "e9", FromInt(1), FromInt(10), InvalidDate)>>

\* one sale on each of the first n days of March 2024, the latest day first
DailySale(j, n) ==
  SaleRowOn("m" \o ToString(j), IF j % 2 = 0 THEN "p1" ELSE "p2",
            IF j % 3 = 0 THEN "e2" ELSE "e1",
            FromInt(1), FromInt(2), DateOf(2024, 2, n + 1 - j, 0))

DailySaleFile(n) == [j \in 1..n |-> DailySale(j, n)]

\* records the storage held before the application started: one whose date
\* does not parse, and one of December 2023
LegacySale == SaleRowOn("l1", "p1", "e1", FromInt(1), FromInt(10), InvalidDate)
OlderSale == SaleRowOn("l2", "p2", "e2", FromInt(2), Dec(35, 1), DateOf(2023, 11, 30, 0))

TimeRanges == {"week", "month"}

InitDays ==
  /\ products = <<>>
  /\ employees = <<>>
  /\ sales \in {<<>>, <<LegacySale>>, <<LegacySale, OlderSale>>}
  /\ expenses = <<>>
  /\ out = Idle
  /\ InitSession

\* a variant that sorts the list it read and writes it back: sales.sort(...)
\* on the collection itself
CallGetSalesByDaySorting(timeRange, now) ==
  /\ out' = [op |-> "getSalesByDay", arg |-> timeRange, now |-> now,
             res |-> getSalesByDay(sales, employees, timeRange, now)]
  /\ sales' = SortByDateDesc(sales)
  /\ UNCHANGED <<products, employees, expenses, session>>

CallGetSalesByDay(timeRange, now) ==
  /\ out' = [op |-> "getSalesByDay", arg |-> timeRange, now |-> now,
             res |-> getSalesByDay(sales, employees, timeRange, now)]
  /\ UNCHANGED <<products, employees, sales, expenses, session>>

CallGetExpensesByCategory ==
  /\ out' = [op |-> "getExpensesByCategory", arg |-> "",
             res |-> getExpensesByCategory(expenses)]
  /\ UNCHANGED <<products, employees, sales, expenses, session>>

NextDays ==
  \/ ImportProducts(<<Cafe, Tarta>>, TRUE)
  \/ \E f \in EmployeeFiles : ImportEmployees(f, FALSE)
  \/ \E merge \in BOOLEAN, now \in NowInputs : ImportSales(JournalFile, merge, now)
  \/ \E n \in 1..MaxDays, now \in NowInputs : ImportSales(DailySaleFile(n), FALSE, now)
  \/ \E f \in ExpenseFiles : ImportExpenses(f, FALSE)
  \/ \E timeRange \in TimeRanges, now \in NowInputs : CallGetSalesByDay(timeRange, now)
  \/ CallGetTimeByCategory
  \/ \E i \in 1..Len(products) : CallCalculateProductCost(i)
  \/ \E id \in ProductIdInputs : CallAnalyzeProductPerformance(id)
  \/ CallGetDashboardStats
  \/ CallGetSalesByEmployee
  \/ CallGetStorageByProduct
  \/ CallGetExpensesByCategory

SpecDays == InitDays /\ [][NextDays]_vars

-----------------------------------------------------------------------------
(* The staff: employee files that list the same three employees in two      *)
(* orders, and one with a single employee paid the fallback rate            *)

StaffFiles ==
  {<<EmployeeRow("e1", "Ana", FromInt(12)), EmployeeRow("e2", "Luis", Dec(101, 1)),
     EmployeeRow("e3", "Eva", Dec(87, 1))>>,
   <<EmployeeRow("e1", "Ana", FromInt(12)), EmployeeRow("e3", "Eva", Dec(87, 1)),
     EmployeeRow("e2", "Luis", Dec(101, 1))>>,
   <<EmployeeRow("e4", "Paz", FromInt(DefaultHourlyRate))>>}

NextStaff ==
  \/ \E f \in ProductFiles, merge \in BOOLEAN : ImportProducts(f, merge)
  \/ \E f \in StaffFiles, merge \in BOOLEAN : ImportEmployees(f, merge)
  \/ \E i \in 1..Len(products) : CallCalculateProductCost(i)

SpecStaff == Init /\ [][NextStaff]_vars

-----------------------------------------------------------------------------
(* The import screen: the user picks a type, the merge mode and a CSV file; *)
(* numeric and date cells are held as the values parseFloat and new Date    *)
(* read from them                                                           *)

ProductHeader ==
  <<"id", "name", "price", "category", "preparationTime", "storageRequired",
    "employeeHoursRequired">>

ProductLine(p) ==
  <<p.id, p.name, p.price, p.category, p.preparationTime, p.storageRequired,
    p.employeeHoursRequired>>

Zumo == ProductRow("p4", "Zumo", FromInt(3), "bebidas", FromInt(2), Dec(2, 1), Dec(5, 2))
NoNameRow == ProductRow("p5", "", FromInt(1), "bebidas", FromInt(5), Zero, Zero)

\* two products; a file that lists p1 twice; another product; a header
\* alone; the empty text; lines that are short, long, without id, without
\* name
ProductTexts ==
  << <<ProductHeader, ProductLine(Cafe), ProductLine(Tarta)>>,
     <<ProductHeader, ProductLine(Cafe), ProductLine(CafeRepriced)>>,
     <<ProductHeader, ProductLine(Zumo)>>,
     <<ProductHeader>>,
     EmptyText,
     <<ProductHeader, <<"p6", "Agua">>, ProductLine(NoIdRow), ProductLine(NoNameRow),
       ProductLine(Zumo) \o <<"">> >> >>

EmployeeHeader == <<"id", "name", "hourlyRate">>
EmployeeLine(e) == <<e.id, e.name, e.hourlyRate>>

EmployeeTexts ==
  << <<EmployeeHeader, EmployeeLine(EmployeeRow("e1", "Ana", FromInt(10))),
       EmployeeLine(EmployeeRow("e2", "Luis", FromInt(12)))>>,
     <<EmployeeHeader, EmployeeLine(EmployeeRow("", "Sin id", FromInt(9))), <<"e4">> >> >>

SaleHeader == <<"id", "productId", "quantity", "price", "date", "employeeId">>
SaleLine(r) == <<r.id, r.productId, r.quantity, r.price, r.date, r.employeeId>>

SaleTexts ==
  << <<SaleHeader, SaleLine(SaleRow("s1", "p1", "e1", FromInt(1), FromInt(10))),
       SaleLine(SaleRowOn("s2", "p2", "e2", FromInt(2), Dec(35, 1), InvalidDate))>>,
     <<SaleHeader, SaleLine(SaleRow("s3", "p9", "e1", FromInt(1), FromInt(2))),
       SaleLine(SaleRow("s3", "p1", "e1", FromInt(4), FromInt(10)))>>,
     <<SaleHeader, SaleLine(SaleRow("s4", "", "e1", FromInt(1), FromInt(2))), <<"s5", "p1">> >> >>

ExpenseHeader == <<"id", "description", "amount", "category">>
ExpenseLine(x) == <<x.id, x.description, x.amount, x.category>>

ExpenseTexts ==
  << <<ExpenseHeader, ExpenseLine(ExpenseRow("x1", "Alquiler", FromInt(100), "local"))>>,
     <<ExpenseHeader, ExpenseLine(ExpenseRow("x3", "", FromInt(7), "otros"))>> >>

ImportTypes == {"products", "employees", "sales", "expenses"}

\* the moment of the imports of this screen
ImportClock == DateOf(2024, 1, 20, 630)

\* the records importX(parseCSV(csvText)) yields for the type
importedOf(importType, csvText, now) ==
  CASE importType = "products" -> importProducts(parseCSV(csvText))
    [] importType = "employees" -> importEmployees(parseCSV(csvText))
    [] importType = "sales" -> importSales(parseCSV(csvText), now)
    [] importType = "expenses" -> importExpenses(parseCSV(csvText))

\* the stored collection of the type
storedOf(importType) ==
  CASE importType = "products" -> products
    [] importType = "employees" -> employees
    [] importType = "sales" -> sales
    [] importType = "expenses" -> expenses

\* handleFileSelect: the import of the chosen type runs on the text of the
\* file, and the screen shows its result
handleFileSelect(importType, csvText, mergeMode, now) ==
  LET csvData == parseCSV(csvText)
  IN /\ products' = IF importType = "products"
                    THEN importProductsFromCSV(products, csvData, mergeMode)
                    ELSE products
     /\ employees' = IF importType = "employees"
                     THEN importEmployeesFromCSV(employees, csvData, mergeMode)
                     ELSE employees
     /\ sales' = IF importType = "sales"
                 THEN importSalesFromCSV(sales, csvData, mergeMode, now)
                 ELSE sales
     /\ expenses' = IF importType = "expenses"
                    THEN importExpensesFromCSV(expenses, csvData, mergeMode)
                    ELSE expenses
     /\ out' = [now |-> now, csvText |-> csvText, op |-> "handleFileSelect",
                arg |-> importType,
                res |-> importResult(storedOf(importType),
                                     importedOf(importType, csvText, now), mergeMode),
                mergeMode |-> mergeMode]
     /\ UNCHANGED session

\* the button 'Clear All Data': storageService.clearAll()
clearAll ==
  /\ products' = <<>>
  /\ employees' = <<>>
  /\ sales' = <<>>
  /\ expenses' = <<>>
  /\ out' = [op |-> "clearAll"]
  /\ UNCHANGED session

InitCsv ==
  /\ products = <<>>
  /\ employees = <<>>
  /\ sales = <<>>
  /\ expenses = <<>>
  /\ out = Idle
  /\ InitSession

NextCsv ==
  \/ \E k \in 1..Len(ProductTexts), mergeMode \in BOOLEAN :
       handleFileSelect("products", ProductTexts[k], mergeMode, ImportClock)
  \/ \E k \in 1..Len(EmployeeTexts), mergeMode \in BOOLEAN :
       handleFileSelect("employees", EmployeeTexts[k], mergeMode, ImportClock)
  \/ \E k \in 1..Len(SaleTexts), mergeMode \in BOOLEAN :
       handleFileSelect("sales", SaleTexts[k], mergeMode, ImportClock)
  \/ \E k \in 1..Len(ExpenseTexts), mergeMode \in BOOLEAN :
       handleFileSelect("expenses", ExpenseTexts[k], mergeMode, ImportClock)
  \/ clearAll

SpecCsv == InitCsv /\ [][NextCsv]_vars

-----------------------------------------------------------------------------
(* The application shell: App mounts and calls autoImportExampleData, which *)
(* is suspended at each of its awaits while the user goes on working; the  *)
(* Sales screen keeps its own copy of the lists it loaded when it mounted. *)

\* the most sales the user registers through the form
MaxSubmits == 2

\* the files served under /data
ExampleProducts == <<Cafe, Tarta>>
ExampleEmployees == <<EmployeeRow("e1", "Ana", FromInt(10))>>
ExampleSales ==
  <<SaleRow("s1", "p1", "e1", FromInt(1), FromInt(10)),
    SaleRowOn("s2", "p2", "e1", FromInt(2), Dec(35, 1), DateOf(2024, 1, 3, 0))>>
ExampleExpenses == <<ExpenseRow("x1", "Alquiler", FromInt(100), "local")>>

\* a file of sales the user imports on the import screen
UserSales == <<SaleRow("s3", "p1", "e1", FromInt(3), FromInt(10))>>

\* the awaits of autoImportExampleData, in order: the dynamic import of
\* ./storage (the forced module only), then the four fetches
AwaitStorage == "storage"
Fetches == <<"productos", "empleados", "ventas", "gastos">>

\* the position after the fetch at position k of Fetches
NextFetch(k) == IF k < Len(Fetches) THEN Fetches[k + 1] ELSE NoRun

\* the date <input type="date"> of the Sales form holds
FormDate == DateOf(2024, 1, 20, 0)

\* Sales.loadData, then the render, which sorts the sales state in place
loadData(prods, emps, ss) ==
  [products |-> prods, employees |-> emps,
   sales |-> SortByDateDesc(ss), open |-> TRUE]

InitApp ==
  /\ products = <<>>
  /\ employees = <<>>
  /\ sales = <<>>
  /\ expenses = <<>>
  /\ out = Idle
  /\ firstLoadCompleted = FALSE
  /\ run = NoRun
  /\ salesScreen = Closed
  /\ clock = 0
  /\ build \in Builds

\* the page is loaded: a call still pending ends with the old page, App
\* mounts and its effect calls autoImportExampleData, which runs up to its
\* first await (the guarded module returns at once when the flag is set)
AppMount ==
  /\ run' = IF build = Forced THEN AwaitStorage
            ELSE IF firstLoadCompleted THEN NoRun
            ELSE Fetches[1]
  /\ salesScreen' = Closed
  /\ out' = Idle
  /\ UNCHANGED <<products, employees, sales, expenses, firstLoadCompleted,
                 clock, build>>

\* the forced module after `await import('./storage')`: the four saves of
\* [], then the first fetch
StorageModuleLoaded ==
  /\ run = AwaitStorage
  /\ products' = <<>>
  /\ employees' = <<>>
  /\ sales' = <<>>
  /\ expenses' = <<>>
  /\ run' = Fetches[1]
  /\ UNCHANGED <<out, firstLoadCompleted, salesScreen, clock, build>>

\* a fetch (and the text() of its response) resolves: with response.ok the
\* file is imported in replace mode; after the last file the flag is set
FetchResolved(ok) ==
  \E k \in 1..Len(Fetches) :
    /\ run = Fetches[k]
    /\ products' = IF ok /\ k = 1
                   THEN importProductsFromCSV(products, ExampleProducts, FALSE)
                   ELSE products
    /\ employees' = IF ok /\ k = 2
                    THEN importEmployeesFromCSV(employees, ExampleEmployees, FALSE)
                    ELSE employees
    /\ sales' = IF ok /\ k = 3
                THEN importSalesFromCSV(sales, ExampleSales, FALSE, ImportClock)
                ELSE sales
    /\ expenses' = IF ok /\ k = 4
                   THEN importExpensesFromCSV(expenses, ExampleExpenses, FALSE)
                   ELSE expenses
    /\ run' = NextFetch(k)
    /\ firstLoadCompleted' = IF k = Len(Fetches) THEN TRUE ELSE firstLoadCompleted
    /\ UNCHANGED <<out, salesScreen, clock, build>>

\* a fetch rejects: the catch logs the error and the call ends
FetchRejected ==
  /\ run \notin {NoRun, AwaitStorage}
  /\ run' = NoRun
  /\ UNCHANGED <<products, employees, sales, expenses, out, firstLoadCompleted,
                 salesScreen, clock, build>>

\* handleStartTutorial, confirmed: clearAllData() empties the storage and
\* removes the flag (the application with the tutorial has the guarded
\* module)
clearAllData ==
  /\ build = Guarded
  /\ products' = <<>>
  /\ employees' = <<>>
  /\ sales' = <<>>
  /\ expenses' = <<>>
  /\ firstLoadCompleted' = FALSE
  /\ out' = [op |-> "clearAllData"]
  /\ UNCHANGED <<run, salesScreen, clock, build>>

\* the route /sales is entered: Sales mounts and its effect calls loadData
SalesMount ==
  /\ ~salesScreen.open
  /\ salesScreen' = loadData(products, employees, sales)
  /\ UNCHANGED <<products, employees, sales, expenses, out, firstLoadCompleted,
                 run, clock, build>>

\* the route /sales is left
SalesUnmount ==
  /\ salesScreen.open
  /\ salesScreen' = Closed
  /\ UNCHANGED <<products, employees, sales, expenses, out, firstLoadCompleted,
                 run, clock, build>>

\* Sales.handleSubmit: the product and the employee are options of the
\* required selects, filled from the lists of the screen
handleSubmit(productId, employeeId, quantity, price) ==
  /\ salesScreen.open
  /\ clock < MaxSubmits
  /\ FindIndex(salesScreen.products, productId, 1) # 0
  /\ FindIndex(salesScreen.employees, employeeId, 1) # 0
  /\ clock' = clock + 1
  /\ LET sale == SaleRowOn(ToString(clock'), productId, employeeId, quantity,
                           price, FormDate)
         updatedSales == Append(salesScreen.sales, sale)
     IN sales' = reloadSales(updatedSales)
  /\ salesScreen' = loadData(products, employees, sales')
  /\ out' = [op |-> "handleSubmit"]
  /\ UNCHANGED <<products, employees, expenses, firstLoadCompleted, run, build>>

\* Sales.handleDelete, confirmed, on a row of the table
handleDelete(id) ==
  /\ salesScreen.open
  /\ FindIndex(salesScreen.sales, id, 1) # 0
  /\ sales' = reloadSales(SelectSeq(salesScreen.sales, LAMBDA s : s.id # id))
  /\ salesScreen' = loadData(products, employees, sales')
  /\ out' = [op |-> "handleDelete"]
  /\ UNCHANGED <<products, employees, expenses, firstLoadCompleted, run, clock,
                 build>>

NextApp ==
  \/ AppMount
  \/ StorageModuleLoaded
  \/ \E ok \in BOOLEAN : FetchResolved(ok)
  \/ FetchRejected
  \/ clearAllData
  \/ SalesMount
  \/ SalesUnmount
  \/ \E productId \in {"p1"}, employeeId \in {"e1"} :
       handleSubmit(productId, employeeId, FromInt(1), FromInt(10))
  \/ \E i \in 1..Len(salesScreen.sales) : handleDelete(salesScreen.sales[i].id)
  \/ \E merge \in BOOLEAN :
       ~salesScreen.open /\ ImportSales(UserSales, merge, ImportClock)
  \/ ~salesScreen.open /\ clearAll

SpecApp == InitApp /\ [][NextApp]_vars

-----------------------------------------------------------------------------
(* Properties                                                              *)

Analyzed == out.op = "analyzeProductPerformance" /\ out.res # Null
AnalyzedPrep == out.op = "analyzeProductPerformancePrep" /\ out.res # Null
RequestedProduct == products[FindIndex(products, out.arg, 1)]
Dashboard == out.op = "getDashboardStats"

\* a > b of JavaScript
fgt(a, b) == fgt0(fsub(a, b))

(* C1: the cost breakdown of analyzeProductPerformance adds up to totalCost
   exactly (ingredientCost + laborCost + storageCost = totalCost), and
   totalCost is calculateProductCost(product, employees) * unitsSold. *)
C1_BreakdownSumsToTotalCost ==
  Analyzed =>
    /\ feq(fadd(fadd(out.res.ingredientCost, out.res.laborCost), out.res.storageCost),
           out.res.totalCost)
    /\ feq(out.res.totalCost,
           fmul(calculateProductCost(RequestedProduct, employees), out.res.unitsSold))

\* rows.reduce((sum, r) => sum + r.totalRevenue, 0)
RECURSIVE RowRevenueSum(_, _, _)
RowRevenueSum(rows, i, sum) ==
  IF i > Len(rows) THEN sum
  ELSE RowRevenueSum(rows, i + 1, fadd(sum, rows[i].totalRevenue))

(* C2: the totalRevenue of the rows of getSalesByEmployee adds up to the
   totalRevenue of getDashboardStats on the same snapshot. *)
C2_RevenueConservedByEmployee ==
  out.op = "getSalesByEmployee" =>
    feq(RowRevenueSum(out.res, 1, Zero),
        getDashboardStats(products, sales, expenses, employees).totalRevenue)

\* the sales that reference product id
SalesOfProduct(id) == {i \in 1..Len(sales) : sales[i].productId = id}
MarginOfProduct(id) == analyzeProductPerformance(id, products, sales, employees).margin
InTop(id) == \E j \in 1..Len(out.res.topProducts) : out.res.topProducts[j].productId = id

(* C3: topProducts of getDashboardStats has at most 10 entries, in
   non-increasing order of margin, and no product left out of it has a
   margin strictly greater than that of a product in it. *)
C3_TopProductsAreTheTenBest ==
  Dashboard =>
    LET top == out.res.topProducts
    IN /\ Len(top) <= 10
       /\ \A j \in 1..(Len(top) - 1) : ~fgt(top[j + 1].margin, top[j].margin)
       /\ \A i \in 1..Len(products) :
            ~InTop(products[i].id) =>
              \A j \in 1..Len(top) : ~fgt(MarginOfProduct(products[i].id), top[j].margin)

\* more than 10 products, margins that differ inside the list, and a product
\* left out whose margin is strictly below the last one listed
C3_Witness ==
  /\ Dashboard
  /\ Len(products) > 10
  /\ Len(out.res.topProducts) = 10
  /\ fgt(out.res.topProducts[1].margin, out.res.topProducts[10].margin)
  /\ \E i \in 1..Len(products) :
       /\ ~InTop(products[i].id)
       /\ fgt(out.res.topProducts[10].margin, MarginOfProduct(products[i].id))

StorageRows == out.op = "getStorageByProduct"
StoredProduct(id) == products[FindIndex(products, id, 1)]

\* the sum, in sale order, of storageRequired * quantity over the sales of id
RECURSIVE StorageOfSales(_, _, _)
StorageOfSales(id, i, sum) ==
  IF i > Len(sales) THEN sum
  ELSE StorageOfSales(id, i + 1,
         IF sales[i].productId = id
         THEN fadd(sum, fmul(StoredProduct(id).storageRequired, sales[i].quantity))
         ELSE sum)

StorageRowsSortedAndCut ==
  /\ Len(out.res) <= 15
  /\ \A j \in 1..(Len(out.res) - 1) : ~fgt(out.res[j + 1].totalStorage, out.res[j].totalStorage)

(* C4, as claimed: getStorageByProduct returns at most 15 rows in
   non-increasing order of totalStorage, and each row's totalStorage is the
   product's storageRequired times the summed quantity of its sales. *)
C4_StorageIsRequiredTimesUnits ==
  StorageRows =>
    /\ StorageRowsSortedAndCut
    /\ \A j \in 1..Len(out.res) :
         feq(out.res[j].totalStorage,
             fmul(StoredProduct(out.res[j].productId).storageRequired,
                  QuantitySum(productSalesOf(sales, out.res[j].productId), 1, Zero)))

(* C4, amended: getStorageByProduct returns at most 15 rows in
   non-increasing order of totalStorage, and each row's totalStorage is the
   sum, over the sales of that product in list order, of the product's
   storageRequired times the sale's quantity (each term and each partial sum
   rounded), its unitsSold the summed quantity of those sales. *)
C4_StorageIsSumOverSales ==
  StorageRows =>
    /\ StorageRowsSortedAndCut
    /\ \A j \in 1..Len(out.res) :
         /\ feq(out.res[j].totalStorage, StorageOfSales(out.res[j].productId, 1, Zero))
         /\ feq(out.res[j].unitsSold,
                QuantitySum(productSalesOf(sales, out.res[j].productId), 1, Zero))

\* more than 15 products were sold, the rows differ in totalStorage, and a
\* listed product has more than one sale
C4_Witness ==
  /\ StorageRows
  /\ Len(out.res) = 15
  /\ Cardinality({sales[i].productId : i \in {k \in 1..Len(sales) :
                     FindIndex(products, sales[k].productId, 1) # 0}}) > 15
  /\ fgt(out.res[1].totalStorage, out.res[15].totalStorage)
  /\ \E j \in 1..Len(out.res) : Cardinality(SalesOfProduct(out.res[j].productId)) > 1

(* C5: for a product that no sale references, whatever its fields
   (preparationTime = 0 included) and whatever the employees, both variants
   of analyzeProductPerformance return unitsSold = 0, revenue = 0,
   totalCost = 0, margin = 0 and marginPercentage = 0, none of them NaN. *)
C5_UnsoldProductIsAllZero ==
  (Analyzed \/ AnalyzedPrep) /\ SalesOfProduct(out.arg) = {} =>
    /\ feq(out.res.unitsSold, Zero)
    /\ feq(out.res.revenue, Zero)
    /\ feq(out.res.totalCost, Zero)
    /\ feq(out.res.margin, Zero)
    /\ feq(out.res.marginPercentage, Zero)

(* C6: calculateProductCost, in both variants, returns a finite number
   (never NaN or Infinity) for every product and employee list, with no
   employees and with preparationTime = 0 included. *)
C6_ProductCostIsFinite ==
  out.op \in {"calculateProductCost", "calculateProductCostPrep"} => IsFinite(out.res)

(* C7: in getDashboardStats profitMargin is 0 whenever totalRevenue is 0,
   whatever the expenses and products; averageOrderValue is 0 when there is
   no sale and totalRevenue / (number of sale records) otherwise. *)
C7_DashboardDivisionsGuarded ==
  Dashboard =>
    /\ feq(out.res.totalRevenue, Zero) => feq(out.res.profitMargin, Zero)
    /\ Len(sales) = 0 => feq(out.res.averageOrderValue, Zero)
    /\ Len(sales) > 0 =>
         feq(out.res.averageOrderValue, fdiv(out.res.totalRevenue, FromInt(Len(sales))))

\* no revenue, but expenses: the net profit is not zero and the margin still is
C7_Witness ==
  /\ Dashboard
  /\ feq(out.res.totalRevenue, Zero)
  /\ Len(expenses) > 0
  /\ flt0(out.res.netProfit)
  /\ Len(products) > 0

(* C8: in the result of analyzeProductPerformance margin = revenue -
   totalCost, marginPercentage = margin / revenue * 100 for every revenue
   other than 0, and marginPercentage = 0 when revenue is 0. *)
C8_MarginPercentageUnlessZeroRevenue ==
  Analyzed =>
    /\ feq(out.res.margin, fsub(out.res.revenue, out.res.totalCost))
    /\ ~feq(out.res.revenue, Zero) =>
         feq(out.res.marginPercentage,
             fmul(fdiv(out.res.margin, out.res.revenue), FromInt(100)))
    /\ feq(out.res.revenue, Zero) => feq(out.res.marginPercentage, Zero)

(* C9: analyzeProductPerformance returns null exactly when no product of
   the list has the requested id; otherwise the analysis carries the id and
   the name of the product that has it. *)
C9_NullIffNoSuchProduct ==
  out.op = "analyzeProductPerformance" =>
    /\ out.res = Null <=> (\A i \in 1..Len(products) : products[i].id # out.arg)
    /\ out.res # Null =>
         \E i \in 1..Len(products) :
           /\ products[i].id = out.arg
           /\ out.res.productId = products[i].id
           /\ out.res.productName = products[i].name

\* both cases: an id that matches none of several products
C9_Witness ==
  /\ out.op = "analyzeProductPerformance"
  /\ out.res = Null
  /\ Len(products) > 1

\* the sum of price * quantity over the sales of id, in list order
RECURSIVE RevenueOfProduct(_, _, _)
RevenueOfProduct(id, i, sum) ==
  IF i > Len(sales) THEN sum
  ELSE RevenueOfProduct(id, i + 1,
         IF sales[i].productId = id
         THEN fadd(sum, fmul(sales[i].price, sales[i].quantity))
         ELSE sum)

PriceInputs == {Zero, FromInt(12), Dec(999, 2), FromInt(-3)}

\* the products, with the price of the i-th changed
Repriced(i, price) == [products EXCEPT ![i].price = price]

(* C10: the revenue of analyzeProductPerformance is the sum of sale.price *
   sale.quantity over exactly the sales of the requested product, and another
   price on the product itself, with the same sales, leaves revenue,
   unitsSold, totalCost and margin as they are. *)
C10_RevenueFromSalePrices ==
  Analyzed =>
    /\ feq(out.res.revenue, RevenueOfProduct(out.arg, 1, Zero))
    /\ \A price \in PriceInputs :
         LET other == analyzeProductPerformance(
                        out.arg, Repriced(FindIndex(products, out.arg, 1), price),
                        sales, employees)
         IN /\ other.revenue = out.res.revenue
            /\ other.unitsSold = out.res.unitsSold
            /\ other.totalCost = out.res.totalCost
            /\ other.margin = out.res.margin

\* the product has sales at a price other than its own, and other products
\* have sales too
C10_Witness ==
  /\ Analyzed
  /\ \E i \in SalesOfProduct(out.arg) : sales[i].price # RequestedProduct.price
  /\ \E i \in 1..Len(sales) : sales[i].productId # out.arg
  /\ ~feq(out.res.revenue, fmul(RequestedProduct.price, out.res.unitsSold))

\* the label a lookup that finds nothing falls back to
UnknownLabel == "Desconocido"

(* C11: getStorageByProduct tolerates a dangling productId: a sale whose
   productId matches no product is still aggregated into a row keyed by that
   raw productId, with the sentinel label as productName and its quantity
   counted in unitsSold (unless the list is cut at 15 rows). *)
C11_DanglingProductHasStorageRow ==
  StorageRows /\ Len(out.res) < StorageRowsLimit =>
    \A i \in 1..Len(sales) :
      FindIndex(products, sales[i].productId, 1) = 0 =>
        \E j \in 1..Len(out.res) :
          /\ out.res[j].productId = sales[i].productId
          /\ out.res[j].productName = UnknownLabel
          /\ feq(out.res[j].unitsSold,
                 QuantitySum(productSalesOf(sales, sales[i].productId), 1, Zero))

EmployeeRows == out.op = "getSalesByEmployee"
SalesOfEmployee(id) == {i \in 1..Len(sales) : sales[i].employeeId = id}

\* the sum of price * quantity over the sales of employee id, in list order
RECURSIVE RevenueOfEmployee(_, _, _)
RevenueOfEmployee(id, i, sum) ==
  IF i > Len(sales) THEN sum
  ELSE RevenueOfEmployee(id, i + 1,
         IF sales[i].employeeId = id
         THEN fadd(sum, fmul(sales[i].price, sales[i].quantity))
         ELSE sum)

(* C12: getSalesByEmployee returns exactly one row for each distinct
   employeeId occurring in the sales, ids that match no employee included
   (they get the sentinel name); a row's numberOfSales is the number of sale
   records with that id and its totalRevenue the sum of their price *
   quantity; the rows are in non-increasing order of totalRevenue. *)
C12_OneRowPerEmployeeId ==
  EmployeeRows =>
    LET rows == out.res
    IN /\ {rows[j].employeeId : j \in 1..Len(rows)} =
            {sales[i].employeeId : i \in 1..Len(sales)}
       /\ \A j, k \in 1..Len(rows) : j # k => rows[j].employeeId # rows[k].employeeId
       /\ \A j \in 1..Len(rows) :
            /\ rows[j].numberOfSales = Cardinality(SalesOfEmployee(rows[j].employeeId))
            /\ feq(rows[j].totalRevenue, RevenueOfEmployee(rows[j].employeeId, 1, Zero))
            /\ (\A e \in 1..Len(employees) : employees[e].id # rows[j].employeeId)
                 => rows[j].employeeName = UnknownLabel
            /\ (\E e \in 1..Len(employees) : employees[e].id = rows[j].employeeId)
                 => \E e \in 1..Len(employees) :
                      /\ employees[e].id = rows[j].employeeId
                      /\ rows[j].employeeName = employees[e].name
       /\ \A j \in 1..(Len(rows) - 1) : ~fgt(rows[j + 1].totalRevenue, rows[j].totalRevenue)

\* three ids, one of them of no employee, one with several sales, and the
\* order of first appearance in the sales is not the order of revenue
C12_Witness ==
  /\ EmployeeRows
  /\ Len(out.res) >= 3
  /\ Len(employees) > 0
  /\ \E j \in 1..Len(out.res) :
       /\ out.res[j].employeeName = UnknownLabel
       /\ \A e \in 1..Len(employees) : employees[e].id # out.res[j].employeeId
  /\ \E j \in 1..Len(out.res) :
       out.res[j].numberOfSales > 1 /\ out.res[j].employeeName # UnknownLabel
  /\ \E j, k \in 1..Len(out.res) :
       /\ j < k
       /\ \E i \in SalesOfEmployee(out.res[k].employeeId) :
            \A h \in SalesOfEmployee(out.res[j].employeeId) : i < h

TimeRows == out.op = "getTimeByCategory"

\* the sales that reference a product of the list
SoldProductSales == SelectSeq(sales, LAMBDA sale : FindIndex(products, sale.productId, 1) # 0)
CategoryOfSale(sale) == StoredProduct(sale.productId).category

\* rows.reduce((sum, r) => sum + r.unitsSold, 0)
RECURSIVE RowUnitsSum(_, _, _)
RowUnitsSum(rows, i, sum) ==
  IF i > Len(rows) THEN sum
  ELSE RowUnitsSum(rows, i + 1, fadd(sum, rows[i].unitsSold))

\* the sum of preparationTime * quantity over the sales of a category, in
\* list order
RECURSIVE TimeOfCategory(_, _, _)
TimeOfCategory(category, i, sum) ==
  IF i > Len(SoldProductSales) THEN sum
  ELSE LET sale == SoldProductSales[i]
       IN TimeOfCategory(category, i + 1,
            IF CategoryOfSale(sale) = category
            THEN fadd(sum, fmul(StoredProduct(sale.productId).preparationTime, sale.quantity))
            ELSE sum)

(* C13: getTimeByCategory returns one row per category of a product that
   has at least one sale; a sale whose productId matches no product
   contributes to no row, so the unitsSold of the rows add up to the summed
   quantity of the sales that reference an existing product; each row's
   totalTime is the sum of preparationTime * quantity and its totalHours is
   totalTime / 60. *)
C13_TimeRowsCoverSoldProducts ==
  TimeRows =>
    LET rows == out.res
    IN /\ {rows[j].category : j \in 1..Len(rows)} =
            {CategoryOfSale(SoldProductSales[i]) : i \in 1..Len(SoldProductSales)}
       /\ \A j, k \in 1..Len(rows) : j # k => rows[j].category # rows[k].category
       /\ feq(RowUnitsSum(rows, 1, Zero), QuantitySum(SoldProductSales, 1, Zero))
       /\ \A j \in 1..Len(rows) :
            /\ feq(rows[j].totalTime, TimeOfCategory(rows[j].category, 1, Zero))
            /\ feq(rows[j].totalHours, fdiv(rows[j].totalTime, FromInt(60)))

DayRows == out.op = "getSalesByDay"
AllDatesValid == \A i \in 1..Len(sales) : sales[i].date.valid

\* the month the chart is about: the current one when a sale is dated in
\* it, otherwise that of a latest-dated sale (all dates valid)
ChartMonth ==
  IF \E i \in 1..Len(sales) :
       sales[i].date.year = out.now.year /\ sales[i].date.month = out.now.month
  THEN [year |-> out.now.year, month |-> out.now.month]
  ELSE LET latest == CHOOSE i \in 1..Len(sales) :
                       \A k \in 1..Len(sales) : getTime(sales[k].date) <= getTime(sales[i].date)
       IN [year |-> sales[latest].date.year, month |-> sales[latest].date.month]

InChartMonth(i) ==
  sales[i].date.year = ChartMonth.year /\ sales[i].date.month = ChartMonth.month

\* the sum of the quantities of the sales in set S, in list order
RECURSIVE QuantityOver(_, _, _)
QuantityOver(S, i, sum) ==
  IF i > Len(sales) THEN sum
  ELSE QuantityOver(S, i + 1, IF i \in S THEN fadd(sum, sales[i].quantity) ELSE sum)

(* C14: getSalesByDay aggregates the sales of exactly one calendar month
   and year: the current month when at least one sale is dated in it,
   otherwise the month of the latest-dated sale; so with a non-empty list of
   sales, all dates valid, the 'month' result has at least one row, and no
   sale of another month contributes to any row. *)
C14_OneMonthIsCharted ==
  DayRows /\ out.arg = "month" /\ Len(sales) > 0 /\ AllDatesValid =>
    LET rows == out.res.rows
        window == {i \in 1..Len(sales) : InChartMonth(i)}
    IN /\ ~out.res.threw
       /\ Len(rows) >= 1
       /\ {rows[j].day : j \in 1..Len(rows)} = {sales[i].date.day : i \in window}
       /\ \A j \in 1..Len(rows) :
            feq(rows[j].totalQuantity,
                QuantityOver({i \in window : sales[i].date.day = rows[j].day}, 1, Zero))

\* no sale in the current month, so the month of the latest sale is charted,
\* while sales of the same month a year before and of another month fall on
\* a day number of the chart
C14_Witness ==
  /\ DayRows /\ out.arg = "month" /\ Len(sales) > 0 /\ AllDatesValid
  /\ ChartMonth # [year |-> out.now.year, month |-> out.now.month]
  /\ \E i, k, h \in 1..Len(sales) :
       /\ InChartMonth(i)
       /\ sales[k].date.day = sales[i].date.day
       /\ sales[k].date.month = sales[i].date.month
       /\ sales[k].date.year # sales[i].date.year
       /\ sales[h].date.day = sales[i].date.day
       /\ sales[h].date.month # sales[i].date.month

\* the sales whose date is valid
ValidlyDatedSales == SelectSeq(sales, LAMBDA sale : sale.date.valid)

(* C15: getSalesByDay, for both ranges, never throws when some or all
   sales carry an invalid date: such sales match no month or day, and the
   rows returned are those it returns when the sales with an invalid date
   are absent from the snapshot. *)
C15_InvalidDatesAreLeftOut ==
  DayRows =>
    /\ ~out.res.threw
    /\ out.res.rows = getSalesByDay(ValidlyDatedSales, employees, out.arg, out.now).rows

(* C16: with range 'week', getSalesByDay counts only sales of the selected
   month that fall in the trailing 7 days ending at the latest sale of that
   month, so the result has at most 7 day rows, and every row is also a day
   of the 'month' result for the same snapshot (all dates valid). *)
C16_WeekHasAtMostSevenDays ==
  DayRows /\ out.arg = "week" /\ AllDatesValid =>
    LET rows == out.res.rows
        monthRows == getSalesByDay(sales, employees, "month", out.now).rows
    IN /\ ~out.res.threw
       /\ Len(rows) <= 7
       /\ \A j \in 1..Len(rows) : \E k \in 1..Len(monthRows) : monthRows[k].day = rows[j].day

\* the sales the chart is about: those of the chart's month, and for the
\* 'week' range those of them no more than 7 * 24 hours before the latest
ChartWindow ==
  LET month == {i \in 1..Len(sales) : InChartMonth(i)}
  IN IF out.arg = "month" THEN month
     ELSE {i \in month :
             \E k \in month :
               /\ \A h \in month : getTime(sales[h].date) <= getTime(sales[k].date)
               /\ getTime(sales[i].date) >= getTime(sales[k].date) - 7 * 24 * 60}

SalesOnDay(day) == {i \in ChartWindow : sales[i].date.day = day}

(* C17: getSalesByDay returns at most one row per day-of-month number, in
   strictly ascending day order; each row's totalQuantity is the sum of the
   quantities of the window's sales on that day, and its employees list
   contains, without duplicates, exactly the names of the existing employees
   who have at least one sale on that day (all dates valid). *)
C17_OneRowPerDayWithItsEmployees ==
  DayRows /\ Len(sales) > 0 /\ AllDatesValid =>
    LET rows == out.res.rows
    IN /\ \A j \in 1..(Len(rows) - 1) : rows[j].day < rows[j + 1].day
       /\ {rows[j].day : j \in 1..Len(rows)} = {sales[i].date.day : i \in ChartWindow}
       /\ \A j \in 1..Len(rows) :
            /\ feq(rows[j].totalQuantity, QuantityOver(SalesOnDay(rows[j].day), 1, Zero))
            /\ \A a, b \in 1..Len(rows[j].employees) :
                 a # b => rows[j].employees[a] # rows[j].employees[b]
            /\ {rows[j].employees[a] : a \in 1..Len(rows[j].employees)} =
                 {employees[e].name : e \in {x \in 1..Len(employees) :
                    \E i \in SalesOnDay(rows[j].day) : sales[i].employeeId = employees[x].id}}

\* a day with two sales of one employee and a sale of another, a day whose
\* only sale is of an unknown employee, and days that are not in ascending
\* order in the list of sales
C17_Witness ==
  /\ DayRows /\ Len(sales) > 0 /\ AllDatesValid
  /\ \E j \in 1..Len(out.res.rows) :
       /\ Len(out.res.rows[j].employees) = 2
       /\ \E i, k \in SalesOnDay(out.res.rows[j].day) :
            i # k /\ sales[i].employeeId = sales[k].employeeId
                  /\ \E e \in 1..Len(employees) : employees[e].id = sales[i].employeeId
  /\ \E j \in 1..Len(out.res.rows) :
       out.res.rows[j].employees = <<>> /\ SalesOnDay(out.res.rows[j].day) # {}
  /\ \E i, k \in ChartWindow : i < k /\ sales[k].date.day < sales[i].date.day

\* the sum of the amounts of the stored expenses, in list order
RECURSIVE ExpenseTotal(_, _)
ExpenseTotal(i, sum) ==
  IF i > Len(expenses) THEN sum
  ELSE ExpenseTotal(i + 1, fadd(sum, expenses[i].amount))

\* the sum, over the stored products in list order, of the product's unit
\* cost times the units sold of it
RECURSIVE CostOfGoodsSold(_, _)
CostOfGoodsSold(i, sum) ==
  IF i > Len(products) THEN sum
  ELSE CostOfGoodsSold(i + 1,
         fadd(sum, fmul(calculateProductCost(products[i], employees),
                        QuantityOver(SalesOfProduct(products[i].id), 1, Zero))))

(* C18: in the result of getDashboardStats the field totalExpenses is the
   sum of all expense amounts plus the sum over all products of
   (calculateProductCost of the product times the units sold of it), and
   netProfit is totalRevenue minus that totalExpenses field. *)
C18_TotalExpensesIncludeProductCosts ==
  Dashboard =>
    /\ feq(out.res.totalExpenses, fadd(ExpenseTotal(1, Zero), CostOfGoodsSold(1, Zero)))
    /\ feq(out.res.netProfit, fsub(out.res.totalRevenue, out.res.totalExpenses))

\* expenses, and several products with sales: a sold one and an unsold one
C18_Witness ==
  /\ Dashboard
  /\ Len(expenses) > 0
  /\ \E i, k \in 1..Len(products) :
       /\ SalesOfProduct(products[i].id) # {}
       /\ SalesOfProduct(products[k].id) = {}
  /\ fgt(out.res.totalExpenses, ExpenseTotal(1, Zero))
  /\ ~feq(out.res.netProfit, Zero)

NothingSoldOrSpent == Dashboard /\ Len(sales) = 0 /\ Len(expenses) = 0

\* an analysis with every amount zero
ZeroValued(a) ==
  /\ feq(a.revenue, Zero) /\ feq(a.unitsSold, Zero)
  /\ feq(a.ingredientCost, Zero) /\ feq(a.laborCost, Zero) /\ feq(a.storageCost, Zero)
  /\ feq(a.totalCost, Zero) /\ feq(a.margin, Zero) /\ feq(a.marginPercentage, Zero)

(* C19, as claimed: with no sales and no expenses, for a list of products of
   any length and any employees, getDashboardStats returns totalRevenue = 0,
   netProfit = 0, profitMargin = 0, and topProducts contains one zero-valued
   entry for each product. *)
C19_EveryProductListedWithZeros ==
  NothingSoldOrSpent =>
    /\ feq(out.res.totalRevenue, Zero)
    /\ feq(out.res.netProfit, Zero)
    /\ feq(out.res.profitMargin, Zero)
    /\ Len(out.res.topProducts) = Len(products)
    /\ \A i \in 1..Len(products) :
         \E j \in 1..Len(out.res.topProducts) :
           out.res.topProducts[j].productId = products[i].id /\ ZeroValued(out.res.topProducts[j])

(* C19, amended: with no sales and no expenses, for a list of products of
   any length and any employees, getDashboardStats returns totalRevenue = 0,
   netProfit = 0, profitMargin = 0, and topProducts contains one zero-valued
   entry for each product when there are at most 10 products, and for 10 of
   the products when there are more. *)
C19_TenProductsListedWithZeros ==
  NothingSoldOrSpent =>
    LET top == out.res.topProducts
    IN /\ feq(out.res.totalRevenue, Zero)
       /\ feq(out.res.netProfit, Zero)
       /\ feq(out.res.profitMargin, Zero)
       /\ Len(top) = Min(Len(products), 10)
       /\ \A j \in 1..Len(top) :
            /\ ZeroValued(top[j])
            /\ \E i \in 1..Len(products) : products[i].id = top[j].productId
       /\ \A j, k \in 1..Len(top) : j # k => top[j].productId # top[k].productId

\* more than 10 products, with employees, nothing sold or spent
C19_Witness ==
  /\ NothingSoldOrSpent
  /\ Len(products) > 10
  /\ Len(employees) > 0
  /\ Len(out.res.topProducts) = 10

\* the employees, listed in the order f gives
Reordered(f) == [i \in 1..Len(employees) |-> employees[f[i]]]

(* C20: the labor component of calculateProductCost uses the arithmetic
   mean of hourlyRate over all employees, and a fixed fallback rate with no
   employee: the cost with no employees equals the cost with a single
   employee whose hourlyRate is 15, and the cost is unchanged by the order
   of the employee list. *)
C20_CostIgnoresEmployeeOrder ==
  out.op = "calculateProductCost" =>
    LET product == RequestedProduct
    IN /\ feq(calculateProductCost(product, <<>>),
              calculateProductCost(product, <<EmployeeRow("e0", "Uno", FromInt(15))>>))
       /\ \A f \in Permutations(1..Len(employees)) :
            feq(out.res, calculateProductCost(product, Reordered(f)))

\* the entry points of utils/calculations
AnalyticsOps ==
  {"calculateProductCost", "analyzeProductPerformance", "getDashboardStats",
   "getSalesByEmployee", "getTimeByCategory", "getStorageByProduct", "getSalesByDay",
   "getExpensesByCategory"}

(* C21: no analytics entry point changes the stored Products, Employees,
   Sales or Expenses, which are the lists it is handed: after the call each
   holds the same records in the same order as before it. *)
C21_AnalyticsLeaveCollectionsAlone ==
  [][out'.op \in AnalyticsOps =>
       /\ products' = products
       /\ employees' = employees
       /\ sales' = sales
       /\ expenses' = expenses]_vars

\* getSalesByDay has run on sales that are not in descending date order, none
\* of them of the current month (so it sorted them), with all four
\* collections filled
C21_Witness ==
  /\ DayRows
  /\ sales # SortByDateDesc(sales)
  /\ \A i \in 1..Len(sales) : ~sameMonth(sales[i].date, out.now)
  /\ Len(out.res.rows) > 0
  /\ Len(products) > 0 /\ Len(employees) > 0 /\ Len(expenses) > 0

(* C22: getSalesByDay is a pure function of the snapshot: two calls with
   the same Sales, the same Employees and the same range return the same
   rows, whatever the moment at which each call is made. *)
C22_SalesByDayIgnoresTheClock ==
  DayRows /\ AllDatesValid =>
    \A now \in NowInputs :
      getSalesByDay(sales, employees, out.arg, now) = out.res

\* the grouping utilities that return a plain list
ListOps ==
  {"getSalesByEmployee", "getTimeByCategory", "getStorageByProduct", "getExpensesByCategory"}

(* C23: with empty Sales and empty Expenses, getSalesByEmployee,
   getTimeByCategory, getStorageByProduct, getExpensesByCategory and
   getSalesByDay (both ranges) each return an empty list without throwing,
   whatever the Products and Employees collections contain. *)
C23_EmptyInputsGiveEmptyLists ==
  Len(sales) = 0 /\ Len(expenses) = 0 =>
    /\ out.op \in ListOps => out.res = <<>>
    /\ DayRows => out.res.rows = <<>> /\ ~out.res.threw

\* getSalesByDay('week') has run on no sales and no expenses, with products
\* and employees in storage
C23_Witness ==
  /\ DayRows /\ out.arg = "week"
  /\ Len(sales) = 0 /\ Len(expenses) = 0
  /\ Len(products) > 1 /\ Len(employees) > 1

\* the valid rows of the file the last import read
ImportedRows == importedOf(out.arg, out.csvText, out.now)

\* the record an imported row is stored as: for a product whose id a stored
\* product with ingredients has, with those ingredients
StoredAs(row, before, importType) ==
  {row} \cup
  (IF importType = "products"
   THEN {[row EXCEPT !.ingredients = before[k].ingredients] :
           k \in {x \in 1..Len(before) :
                    before[x].id = row.id /\ Len(before[x].ingredients) > 0}}
   ELSE {})

(* C24: a CSV import with at least one valid row stores, in replace mode,
   exactly the valid imported rows, and in merge mode every previously
   stored record whose id does not occur in the CSV, unchanged, plus for
   every id in the CSV the imported record (a product keeps the ingredients
   the stored product has, when it has any), and nothing else; the success
   count returned is the number of valid imported rows. *)
C24_ImportStoresTheValidRows ==
  [][\A importType \in ImportTypes :
       out'.op = "handleFileSelect" /\ out'.arg = importType /\ Len(ImportedRows') > 0 =>
         LET imported == ImportedRows'
             before == storedOf(importType)
             after == storedOf(importType)'
             ids == {imported[i].id : i \in 1..Len(imported)}
         IN /\ out'.res.success = Len(imported)
            /\ out'.res.errors = <<>>
            /\ ~out'.mergeMode => after = imported
            /\ out'.mergeMode =>
                 /\ \A i \in 1..Len(before) :
                      before[i].id \notin ids =>
                        Cardinality({j \in 1..Len(after) : after[j] = before[i]}) >=
                          Cardinality({k \in 1..Len(before) : before[k] = before[i]})
                 /\ \A id \in ids :
                      \E j \in 1..Len(after), i \in 1..Len(imported) :
                        /\ imported[i].id = id
                        /\ after[j] \in StoredAs(imported[i], before, importType)
                 /\ \A j \in 1..Len(after) :
                      \/ \E i \in 1..Len(before) :
                           before[i].id \notin ids /\ after[j] = before[i]
                      \/ \E i \in 1..Len(imported) :
                           after[j] \in StoredAs(imported[i], before, importType)]_vars

(* C25: when a CSV yields no valid row (empty text, header only, lines with
   a wrong field count, rows without the required id or name), the import
   returns success = 0 with a non-empty errors list and leaves the stored
   collection of that type unchanged, in merge mode and in replace mode
   alike; an import of one type never touches the other three collections. *)
C25_NoValidRowChangesNothing ==
  [][\A importType \in ImportTypes :
       out'.op = "handleFileSelect" /\ out'.arg = importType =>
         /\ Len(ImportedRows') = 0 =>
              /\ out'.res.success = 0
              /\ Len(out'.res.errors) > 0
              /\ storedOf(importType)' = storedOf(importType)
         /\ \A other \in ImportTypes \ {importType} :
              storedOf(other)' = storedOf(other)]_vars

\* a replace-mode import of a file whose lines are all dropped (short, long,
\* without id, without name) has run over a filled collection, with the other
\* collections filled too
C25_Witness ==
  /\ out.op = "handleFileSelect"
  /\ ~out.mergeMode
  /\ Len(out.csvText) > 4
  /\ Len(ImportedRows) = 0
  /\ out.res.success = 0
  /\ \A importType \in ImportTypes : Len(storedOf(importType)) > 0

\* no two records of the list share an id
UniqueIds(list) == \A i, j \in 1..Len(list) : i # j => list[i].id # list[j].id

(* C27: record ids stay unique within each stored collection: starting
   from empty storage, after any sequence of creations, deletions, clears
   and CSV imports (merge or replace, a CSV that repeats an id included), no
   two stored products, employees, sales or expenses share an id. *)
C27_StoredIdsAreUnique ==
  /\ UniqueIds(products)
  /\ UniqueIds(employees)
  /\ UniqueIds(sales)
  /\ UniqueIds(expenses)

\* the sum of totalCost over the analyses of all stored products, in list order
RECURSIVE AnalysisCostSum(_, _)
AnalysisCostSum(i, sum) ==
  IF i > Len(products) THEN sum
  ELSE AnalysisCostSum(i + 1,
         fadd(sum, analyzeProductPerformance(products[i].id, products, sales,
                                             employees).totalCost))

\* the stored sales whose productId names a stored product
SalesOfKnownProducts ==
  SelectSeq(sales, LAMBDA sale : FindIndex(products, sale.productId, 1) # 0)

\* dangling sales count in totalRevenue and add nothing to the costs
DanglingSalesCostNothing ==
  /\ feq(out.res.totalRevenue, RevenueSum(sales, 1, Zero))
  /\ feq(out.res.totalExpenses,
         getDashboardStats(products, SalesOfKnownProducts, expenses,
                           employees).totalExpenses)

(* C28: for every snapshot with unique product ids, totalExpenses of
   getDashboardStats minus the sum of all Expense.amount equals the sum of
   analyzeProductPerformance(...).totalCost over all products, and sales
   with a dangling productId add to totalRevenue but nothing to that cost. *)
C28_DashboardAgreesWithAnalyses ==
  Dashboard /\ UniqueIds(products) =>
    /\ feq(fsub(out.res.totalExpenses, ExpenseTotal(1, Zero)),
           AnalysisCostSum(1, Zero))
    /\ DanglingSalesCostNothing


\* a step of a call of autoImportExampleData: the call itself or the
\* resumption after one of its awaits
ImportRunStep == run' # run

(* C26: autoImportExampleData imports the example files on the first load
   only: no step of a call writes to the four stored collections while the
   first-load flag is set, so every application start after a completed
   run leaves them as the user left them. *)
C26_ImportOnFirstLoadOnly ==
  [][ImportRunStep /\ firstLoadCompleted =>
       UNCHANGED <<products, employees, sales, expenses>>]_vars

\* nothing is stored
StorageEmpty ==
  /\ products = <<>>
  /\ employees = <<>>
  /\ sales = <<>>
  /\ expenses = <<>>

(* C29: after clearAllData, and until the user creates or imports a record
   (or loads the page again), the four stored collections are empty, also
   when a call of autoImportExampleData was suspended at a fetch at the
   moment of the clear and resumes afterwards. *)
C29_ClearedStorageStaysEmpty ==
  out.op = "clearAllData" => StorageEmpty

\* the step is a submit of the Sales form
Submitted == clock' = clock + 1

(* C30: a submit of the Sales form adds exactly one sale to storage and
   keeps every sale that was in storage just before it, also when storage
   was rewritten after the Sales screen loaded its list. *)
C30_SubmitAddsOneSale ==
  [][Submitted =>
       /\ Len(sales') = Len(sales) + 1
       /\ \A i \in 1..Len(sales) : \E j \in 1..Len(sales') : sales'[j] = sales[i]]_vars

====
